---- MODULE Spec2Model ----
(***************************************************************************)
(* A model of the blog application (posts, comments, categories,          *)
(* locations): the class-based views of posts/views.py, the forms of      *)
(* posts/forms.py and the relations of blog/models.py.                    *)
(*                                                                         *)
(* The stored state is the database (posts, comments, categories,         *)
(* locations), the clock, and the time at which the views module was      *)
(* imported (IndexListView.queryset is built once, at import).  Every     *)
(* request is one action that handles the whole request and leaves its    *)
(* response in `resp`.  The generic views behave as in Django 3.2:        *)
(* DeleteView deletes on POST without consulting a form, ListView with    *)
(* paginate_by answers 404 for an invalid page, LoginRequiredMixin        *)
(* redirects an anonymous user to the login page.                          *)
(*                                                                         *)
(* Text is a sequence of Unicode code points, so that str.lower() and the  *)
(* substring test of the forms are computed, not assumed.                  *)
(***************************************************************************)
EXTENDS Integers, Sequences, FiniteSets

VARIABLES
    now,          \* the clock, timezone.now()
    importTime,   \* timezone.now() as evaluated when posts/views.py was imported
    categories,   \* Category rows: slug -> is_published
    locations,    \* Location rows: name -> is_published
    posts,        \* Post rows: pk -> record
    comments,     \* Comment rows: pk -> record
    nextPostPk,   \* the next primary key of the Post table
    nextCommentPk,\* the next primary key of the Comment table
    resp,         \* the response being sent, NoResponse between requests
    creator       \* history: pk -> the user whose request created the post

vars == <<now, importTime, categories, locations, posts, comments,
          nextPostPk, nextCommentPk, resp, creator>>
db == <<categories, locations, posts, comments, nextPostPk, nextCommentPk>>

-----------------------------------------------------------------------------
(* Bounds of the model. *)

MaxTime == 1        \* the clock runs over 0..MaxTime
MaxPosts == 2       \* primary keys handed out by the Post table
MaxComments == 1    \* primary keys handed out by the Comment table
MaxListed == 21     \* the largest table of the pagination specification

-----------------------------------------------------------------------------
(* Actors and references. *)

Users == {"alice", "bob"}
Anonymous == "AnonymousUser"
AnyViewer == "*"       \* in the response of a view that does not read request.user
Actors == Users \cup {Anonymous}
Usernames == Users \cup {"ghost"}       \* "ghost" is nobody's username
CategorySlugs == {"c1"}
LocationNames == {"l1"}
NULL == "NULL"                         \* a null foreign key
Missing == "MISSING"                   \* a key absent from the submitted data

IsAuthenticated(actor) == actor \in Users
Username(actor) == IF actor = Anonymous THEN "" ELSE actor

PostPks == 1..MaxPosts
CommentPks == 1..MaxComments

-----------------------------------------------------------------------------
(* posts/forms.py: the blocked words and the forms' clean().               *)
(* A text is a sequence of code points; the samples below are the texts    *)
(* the requests submit.                                                    *)

MaxCommentLen == 256    \* Comment.text: TextField(max_length=256)

\* 'блять', 'бля', 'сука', 'пиздец', 'пизда', 'жопа', 'говно', 'хуй'
BAD_WORDS ==
    { <<1073, 1083, 1103, 1090, 1100>>,
      <<1073, 1083, 1103>>,
      <<1089, 1091, 1082, 1072>>,
      <<1087, 1080, 1079, 1076, 1077, 1094>>,
      <<1087, 1080, 1079, 1076, 1072>>,
      <<1078, 1086, 1087, 1072>>,
      <<1075, 1086, 1074, 1085, 1086>>,
      <<1093, 1091, 1081>> }
WARNING == "WARNING"    \* 'Не ругайтесь!'

\* str.lower() on one code point: A-Z, the Cyrillic capitals and Ё.
LowerChar(c) ==
    IF (c >= 65 /\ c <= 90) \/ (c >= 1040 /\ c <= 1071) THEN c + 32
    ELSE IF c = 1025 THEN 1105
    ELSE c

\* text.lower()
Lower(text) == [i \in 1..Len(text) |-> LowerChar(text[i])]

\* word in text
Contains(text, word) ==
    \E i \in 0..(Len(text) - Len(word)) :
        \A j \in 1..Len(word) : text[i + j] = word[j]

TxtDa == <<1076, 1072>>                     \* 'да'
TxtNet == <<1053, 1077, 1090>>              \* 'Нет'
TxtBadUpper == <<1041, 1051, 1071>>         \* 'БЛЯ'
TxtBadInside == <<1040, 1093, 1091, 1049>>  \* 'АхуЙ'
\* 'бля' and then 'а' up to 257 characters
TxtLongBad ==
    [i \in 1..(MaxCommentLen + 1) |->
        IF i <= 3 THEN <<1073, 1083, 1103>>[i] ELSE 1072]

NoText == << >>        \* the text key is absent from the data, or empty

CleanTexts == {TxtDa, TxtNet}
PostTexts == {TxtDa, TxtBadUpper, TxtBadInside, NoText}
CommentTexts == {TxtDa, TxtNet, TxtBadUpper, TxtBadInside, TxtLongBad, NoText}

\* The form field of `text` (a required CharField, with the model field's
\* max_length when it has one; maxLength = 0 stands for none): whether the
\* value passes, and so is put in cleaned_data.
TextFieldValid(text, maxLength) ==
    /\ Len(text) > 0
    /\ maxLength = 0 \/ Len(text) <= maxLength

\* The loop of clean() over BAD_WORDS, on the lowered text.
HasBadWord(text) ==
    \E word \in BAD_WORDS : Contains(Lower(text), word)

\* Form.full_clean() for `text`: the field, then clean().  A field that fails
\* its own validation is left out of cleaned_data, and clean() reads
\* cleaned_data['text']: a KeyError, which full_clean() does not catch.
CleanOutcome(text, maxLength) ==
    IF ~TextFieldValid(text, maxLength) THEN "KeyError"
    ELSE IF HasBadWord(text) THEN "ValidationError"
    ELSE "clean"

\* PostForm.clean(): Post.text has no max_length.
PostFormClean == [text \in PostTexts |-> CleanOutcome(text, 0)]

\* CommentForm.clean(): Comment.text has max_length=256.
CommentFormClean == [text \in CommentTexts |-> CleanOutcome(text, MaxCommentLen)]

-----------------------------------------------------------------------------
(* blog/models.py: the rows, and what deleting a row does to the rows that  *)
(* refer to it.                                                            *)

Title == "title"

\* A Post row.  `author` is the foreign key to the user table.
PostRow(author, form) ==
    [author |-> author, title |-> form.title, text |-> form.text,
     pub_date |-> form.pub_date, is_published |-> form.is_published,
     category |-> form.category, location |-> form.location]

\* A Comment row.
CommentRow(author, post, text) ==
    [author |-> author, post |-> post, text |-> text]

\* f with the row under key k set to row (an INSERT or an UPDATE)
Put(f, k, row) ==
    [x \in DOMAIN f \cup {k} |-> IF x = k THEN row ELSE f[x]]

\* f without the rows under the keys in ks (a DELETE)
Without(f, ks) == [x \in DOMAIN f \ ks |-> f[x]]

\* (a variant of CascadeComments: on_delete=DO_NOTHING)
NoCascade(cs, pks) == cs

\* Comment.post: on_delete=CASCADE.  The comments left when the posts in pks
\* are deleted.
CascadeComments(cs, pks) ==
    Without(cs, {c \in DOMAIN cs : cs[c].post \in pks})

\* Post.category: on_delete=SET_NULL.  The posts after category slug is deleted.
NullCategory(ps, slug) ==
    [p \in DOMAIN ps |->
        IF ps[p].category = slug THEN [ps[p] EXCEPT !.category = NULL]
        ELSE ps[p]]

-----------------------------------------------------------------------------
(* Responses. *)

NoTarget == [name |-> "", pk |-> 0, user |-> ""]
Login == [name |-> "login", pk |-> 0, user |-> ""]
IndexPage == [name |-> "index", pk |-> 0, user |-> ""]
PostDetail(pk) == [name |-> "post_detail", pk |-> pk, user |-> ""]
Profile(username) == [name |-> "profile", pk |-> 0, user |-> username]

\* view and actor are the view that answered and request.user as it read it;
\* shows is the object a rendered page is about (context['profile'],
\* context['category']), items the keys of the posts on it.
Response(view, actor, status, to, errors, shows, items, page) ==
    [view |-> view, actor |-> actor, status |-> status, to |-> to,
     errors |-> errors, shows |-> shows, items |-> items, page |-> page]

Redirect(view, actor, to) ==
    Response(view, actor, "redirect", to, {}, "", << >>, 0)
NotFound(view, actor) ==
    Response(view, actor, "not_found", NoTarget, {}, "", << >>, 0)
ServerError(view, actor) ==
    Response(view, actor, "server_error", NoTarget, {}, "", << >>, 0)
\* the form rendered: on GET without errors, on an invalid POST with them
FormPage(view, actor, errors) ==
    Response(view, actor, "form", NoTarget, errors, "", << >>, 0)
Listing(view, actor, shows, items, page) ==
    Response(view, actor, "ok", NoTarget, {}, shows, items, page)

\* Requests are handled one at a time: a request is taken up when the response
\* to the one before it has been sent.
NoResponse == Response("", Anonymous, "", NoTarget, {}, "", << >>, 0)
Idle == resp = NoResponse

-----------------------------------------------------------------------------
(* The data a request submits. *)

\* The POST data of the post form.  `author` is not a field of PostForm
\* (Meta.exclude); a request may send the key all the same.
AllPostForms ==
    [title : {Title, Missing}, text : PostTexts, pub_date : 0..MaxTime,
     is_published : BOOLEAN, category : CategorySlugs \cup {Missing},
     location : LocationNames \cup {NULL}, author : Users \cup {Missing}]

\* how many fields of the form differ from the plain form: a title, a clean
\* text, published, pub_date 0, the category, the location, no author key
Unusual(f) ==
    (IF f.title = Missing THEN 1 ELSE 0) + (IF f.text # TxtDa THEN 1 ELSE 0)
    + (IF f.pub_date # 0 THEN 1 ELSE 0) + (IF f.is_published THEN 0 ELSE 1)
    + (IF f.category = Missing THEN 1 ELSE 0) + (IF f.location = NULL THEN 1 ELSE 0)
    + (IF f.author # Missing THEN 1 ELSE 0)

\* The forms the requests submit: the plain form, and the forms that differ
\* from it in one field.
PostForms == {f \in AllPostForms : Unusual(f) <= 1}

PlainForm == CHOOSE f \in PostForms : Unusual(f) = 0

PostRequests ==
    {[method |-> "GET", form |-> PlainForm]}
    \cup {[method |-> "POST", form |-> f] : f \in PostForms}

CommentRequests ==
    {[method |-> "GET", text |-> TxtDa]}
    \cup {[method |-> "POST", text |-> t] : t \in CommentTexts}

Methods == {"GET", "POST"}

\* PostForm: the errors of the fields other than text.  title and category are
\* required, category and location are choices among the stored rows.
PostFieldErrors(form) ==
    {e \in {"title", "category", "location"} :
        \/ e = "title" /\ form.title = Missing
        \/ e = "category" /\ form.category \notin DOMAIN categories
        \/ e = "location" /\ form.location # NULL
                          /\ form.location \notin DOMAIN locations}

\* PostForm.is_valid(): "KeyError" when clean() raises it, else the errors
PostFormErrors(form) ==
    PostFieldErrors(form)
    \cup (IF PostFormClean[form.text] = "ValidationError" THEN {WARNING} ELSE {})

\* CommentForm.is_valid(): text is the only field
CommentFormErrors(text) ==
    IF CommentFormClean[text] = "ValidationError" THEN {WARNING} ELSE {}

-----------------------------------------------------------------------------
(* posts/views.py: the views that write. *)

\* (a variant of StampedAuthor: the author taken from the submitted data)
AuthorFromData(actor, form) ==
    IF form.author # Missing THEN form.author ELSE actor

\* PostCreateView.form_valid / PostUpdateView.form_valid:
\* form.instance.author = self.request.user
StampedAuthor(actor, form) == actor

\* (a variant of IsAuthor: the views without the comparison)
NoOwnershipCheck(actor, row) == TRUE

\* PostUpdateView.dispatch / PostDeleteView.dispatch: instance.author != request.user
\* CommentUpdateView.dispatch / CommentDeleteView.dispatch: the same on the comment
IsAuthor(actor, row) == row.author = actor

\* CommentUpdateView.dispatch / CommentDeleteView.dispatch:
\* redirect('posts:post_detail', instance.post_id)
CommentOwnPost(urlPk, comment) == comment.post

PostCreate(actor, req) ==
    /\ Idle
    /\ UNCHANGED <<now, importTime, categories, locations, comments, nextCommentPk>>
    /\ IF ~IsAuthenticated(actor)
       THEN /\ resp' = Redirect("PostCreateView", actor, Login)
            /\ UNCHANGED <<posts, nextPostPk, creator>>
       ELSE IF req.method = "GET"
       THEN /\ resp' = FormPage("PostCreateView", actor, {})
            /\ UNCHANGED <<posts, nextPostPk, creator>>
       ELSE IF PostFormClean[req.form.text] = "KeyError"
       THEN /\ resp' = ServerError("PostCreateView", actor)
            /\ UNCHANGED <<posts, nextPostPk, creator>>
       ELSE IF PostFormErrors(req.form) # {}
       THEN /\ resp' = FormPage("PostCreateView", actor, PostFormErrors(req.form))
            /\ UNCHANGED <<posts, nextPostPk, creator>>
       ELSE /\ nextPostPk <= MaxPosts
            /\ creator' = Put(creator, nextPostPk, actor)
            /\ posts' = Put(posts, nextPostPk,
                            PostRow(StampedAuthor(actor, req.form), req.form))
            /\ nextPostPk' = nextPostPk + 1
            /\ resp' = Redirect("PostCreateView", actor, Profile(Username(actor)))

PostUpdate(actor, pk, req) ==
    /\ Idle
    /\ UNCHANGED <<now, importTime, categories, locations, comments,
                   nextPostPk, nextCommentPk, creator>>
    /\ IF pk \notin DOMAIN posts
       THEN resp' = NotFound("PostUpdateView", actor) /\ UNCHANGED posts
       ELSE IF ~IsAuthor(actor, posts[pk])
       THEN resp' = Redirect("PostUpdateView", actor, PostDetail(pk)) /\ UNCHANGED posts
       ELSE IF ~IsAuthenticated(actor)
       THEN resp' = Redirect("PostUpdateView", actor, Login) /\ UNCHANGED posts
       ELSE IF req.method = "GET"
       THEN resp' = FormPage("PostUpdateView", actor, {}) /\ UNCHANGED posts
       ELSE IF PostFormClean[req.form.text] = "KeyError"
       THEN resp' = ServerError("PostUpdateView", actor) /\ UNCHANGED posts
       ELSE IF PostFormErrors(req.form) # {}
       THEN /\ resp' = FormPage("PostUpdateView", actor, PostFormErrors(req.form))
            /\ UNCHANGED posts
       ELSE /\ posts' = Put(posts, pk,
                            PostRow(StampedAuthor(actor, req.form), req.form))
            /\ resp' = Redirect("PostUpdateView", actor, PostDetail(pk))

PostDelete(actor, pk, method) ==
    /\ Idle
    /\ UNCHANGED <<now, importTime, categories, locations, nextPostPk, nextCommentPk,
                   creator>>
    /\ IF pk \notin DOMAIN posts
       THEN resp' = NotFound("PostDeleteView", actor) /\ UNCHANGED <<posts, comments>>
       ELSE IF ~IsAuthor(actor, posts[pk])
       THEN /\ resp' = Redirect("PostDeleteView", actor, PostDetail(pk))
            /\ UNCHANGED <<posts, comments>>
       ELSE IF ~IsAuthenticated(actor)
       THEN /\ resp' = Redirect("PostDeleteView", actor, Login)
            /\ UNCHANGED <<posts, comments>>
       ELSE IF method = "GET"
       THEN /\ resp' = FormPage("PostDeleteView", actor, {})
            /\ UNCHANGED <<posts, comments>>
       ELSE /\ posts' = Without(posts, {pk})
            /\ comments' = CascadeComments(comments, {pk})
            /\ resp' = Redirect("PostDeleteView", actor, IndexPage)

CommentCreate(actor, pk, text) ==
    /\ Idle
    /\ UNCHANGED <<now, importTime, categories, locations, posts, nextPostPk, creator>>
    /\ IF pk \notin DOMAIN posts
       THEN /\ resp' = NotFound("CommentCreateView", actor)
            /\ UNCHANGED <<comments, nextCommentPk>>
       ELSE IF ~IsAuthenticated(actor)
       THEN /\ resp' = Redirect("CommentCreateView", actor, Login)
            /\ UNCHANGED <<comments, nextCommentPk>>
       ELSE IF CommentFormClean[text] = "KeyError"
       THEN /\ resp' = ServerError("CommentCreateView", actor)
            /\ UNCHANGED <<comments, nextCommentPk>>
       ELSE IF CommentFormErrors(text) # {}
       THEN /\ resp' = FormPage("CommentCreateView", actor, CommentFormErrors(text))
            /\ UNCHANGED <<comments, nextCommentPk>>
       ELSE /\ nextCommentPk <= MaxComments
            /\ comments' = Put(comments, nextCommentPk, CommentRow(actor, pk, text))
            /\ nextCommentPk' = nextCommentPk + 1
            /\ resp' = Redirect("CommentCreateView", actor, PostDetail(pk))

\* pk is the post's key in the URL; the view looks the comment up by
\* comment_id alone and uses pk only in get_success_url.
CommentUpdate(actor, pk, commentId, req) ==
    /\ Idle
    /\ UNCHANGED <<now, importTime, categories, locations, posts,
                   nextPostPk, nextCommentPk, creator>>
    /\ IF commentId \notin DOMAIN comments
       THEN resp' = NotFound("CommentUpdateView", actor) /\ UNCHANGED comments
       ELSE IF ~IsAuthor(actor, comments[commentId])
       THEN /\ resp' = Redirect("CommentUpdateView", actor,
                                PostDetail(CommentOwnPost(pk, comments[commentId])))
            /\ UNCHANGED comments
       ELSE IF ~IsAuthenticated(actor)
       THEN resp' = Redirect("CommentUpdateView", actor, Login) /\ UNCHANGED comments
       ELSE IF req.method = "GET"
       THEN resp' = FormPage("CommentUpdateView", actor, {}) /\ UNCHANGED comments
       ELSE IF CommentFormClean[req.text] = "KeyError"
       THEN resp' = ServerError("CommentUpdateView", actor) /\ UNCHANGED comments
       ELSE IF CommentFormErrors(req.text) # {}
       THEN /\ resp' = FormPage("CommentUpdateView", actor, CommentFormErrors(req.text))
            /\ UNCHANGED comments
       ELSE /\ comments' = Put(comments, commentId,
                               [comments[commentId] EXCEPT !.text = req.text])
            /\ resp' = Redirect("CommentUpdateView", actor, PostDetail(pk))

CommentDelete(actor, pk, commentId, method) ==
    /\ Idle
    /\ UNCHANGED <<now, importTime, categories, locations, posts,
                   nextPostPk, nextCommentPk, creator>>
    /\ IF commentId \notin DOMAIN comments
       THEN resp' = NotFound("CommentDeleteView", actor) /\ UNCHANGED comments
       ELSE IF ~IsAuthor(actor, comments[commentId])
       THEN /\ resp' = Redirect("CommentDeleteView", actor,
                                PostDetail(CommentOwnPost(pk, comments[commentId])))
            /\ UNCHANGED comments
       ELSE IF ~IsAuthenticated(actor)
       THEN resp' = Redirect("CommentDeleteView", actor, Login) /\ UNCHANGED comments
       ELSE IF method = "GET"
       THEN resp' = FormPage("CommentDeleteView", actor, {}) /\ UNCHANGED comments
       ELSE /\ comments' = Without(comments, {commentId})
            /\ resp' = Redirect("CommentDeleteView", actor, PostDetail(pk))

-----------------------------------------------------------------------------
(* What the site's staff does to the rows through the ORM: the is_published *)
(* flag of PublishedModel, and the deletion of a category.                 *)

SetCategoryPublished(slug, flag) ==
    /\ Idle
    /\ slug \in DOMAIN categories
    /\ categories[slug] # flag
    /\ categories' = [categories EXCEPT ![slug] = flag]
    /\ UNCHANGED resp
    /\ UNCHANGED <<now, importTime, locations, posts, comments,
                   nextPostPk, nextCommentPk, creator>>

SetLocationPublished(name, flag) ==
    /\ Idle
    /\ name \in DOMAIN locations
    /\ locations[name] # flag
    /\ locations' = [locations EXCEPT ![name] = flag]
    /\ UNCHANGED resp
    /\ UNCHANGED <<now, importTime, categories, posts, comments,
                   nextPostPk, nextCommentPk, creator>>

DeleteCategory(slug) ==
    /\ Idle
    /\ slug \in DOMAIN categories
    /\ categories' = Without(categories, {slug})
    /\ posts' = NullCategory(posts, slug)
    /\ UNCHANGED resp
    /\ UNCHANGED <<now, importTime, locations, comments, nextPostPk, nextCommentPk,
                   creator>>

\* time passes while the server runs
Tick ==
    /\ Idle
    /\ now < MaxTime
    /\ now' = now + 1
    /\ UNCHANGED resp
    /\ UNCHANGED <<importTime, categories, locations, posts, comments,
                   nextPostPk, nextCommentPk, creator>>

-----------------------------------------------------------------------------
(* django.core.paginator.Paginator and the pagination of ListView, as      *)
(* posts/views.py uses them.                                               *)

PerPage == 10     \* paginate_by = 10, my_pagination(per_page=10)

\* The `page` parameter of the query string: absent, the word 'last',
\* another word, or the decimal text of an integer.
NoPage == [kind |-> "absent", n |-> 0]
LastPage == [kind |-> "last", n |-> 0]
WordPage == [kind |-> "word", n |-> 0]
IntPage(n) == [kind |-> "int", n |-> n]

\* Paginator.num_pages, allow_empty_first_page=True
NumPages(count) ==
    IF count = 0 THEN 1 ELSE (count + PerPage - 1) \div PerPage

\* Paginator.get_page(number): a number that is no integer gives page 1, an
\* integer outside 1..num_pages gives the last page.
GetPage(count, param) ==
    IF param.kind # "int" THEN 1
    ELSE IF param.n < 1 \/ param.n > NumPages(count) THEN NumPages(count)
    ELSE param.n

\* PaginatorMixin.my_pagination: page_obj is assigned get_page(page_number)
\* and then get_page(1).
MyPagination(count, param) ==
    LET requested == GetPage(count, param)
        page_obj == GetPage(count, IntPage(1))
    IN  page_obj

\* MultipleObjectMixin.paginate_queryset (paginate_by set): the number of the
\* page, or 0 for the Http404 it raises.
ListViewPage(count, param) ==
    LET number == CASE param.kind = "absent" -> 1
                    [] param.kind = "last" -> NumPages(count)
                    [] param.kind = "word" -> 0
                    [] param.kind = "int" -> param.n
    IN  IF param.kind = "word" THEN 0
        ELSE IF number < 1 \/ number > NumPages(count) THEN 0
        ELSE number

\* Page.object_list: the items of page n of list
PageItems(list, n) ==
    SubSeq(list, (n - 1) * PerPage + 1,
           IF n * PerPage < Len(list) THEN n * PerPage ELSE Len(list))

\* order_by('-pub_date') of the posts with keys in pks.  Rows of equal
\* pub_date come in the order of their keys.
RECURSIVE OrderByPubDateDesc(_, _)
OrderByPubDateDesc(ps, pks) ==
    IF pks = {} THEN << >>
    ELSE LET first == CHOOSE p \in pks : \A q \in pks :
                          \/ ps[p].pub_date > ps[q].pub_date
                          \/ ps[p].pub_date = ps[q].pub_date /\ p <= q
         IN  <<first>> \o OrderByPubDateDesc(ps, pks \ {first})

-----------------------------------------------------------------------------
(* posts/views.py: the views that read. *)

\* .filter(pub_date__lte=t, is_published=True, category__is_published=True):
\* the join on category leaves out the posts without one.
PublishedFilter(pk, t) ==
    /\ posts[pk].pub_date <= t
    /\ posts[pk].is_published
    /\ posts[pk].category \in DOMAIN categories
    /\ categories[posts[pk].category]

\* IndexListView.queryset: built once, when the class body runs.
IndexQueryset ==
    OrderByPubDateDesc(posts, {pk \in DOMAIN posts : PublishedFilter(pk, importTime)})

\* CategoryListView.dispatch: self.post_list
CategoryQueryset(slug) ==
    OrderByPubDateDesc(posts,
        {pk \in DOMAIN posts : posts[pk].category = slug /\ PublishedFilter(pk, now)})

\* (a variant of ProfileQueryset: the filtered query for every viewer)
ProfileQuerysetFiltered(viewer, username) ==
    OrderByPubDateDesc(posts,
        {pk \in DOMAIN posts : posts[pk].author = username /\ PublishedFilter(pk, now)})

\* ProfileListView.get_queryset
ProfileQueryset(viewer, username) ==
    IF Username(viewer) = username
    THEN OrderByPubDateDesc(posts, {pk \in DOMAIN posts : posts[pk].author = username})
    ELSE OrderByPubDateDesc(posts,
             {pk \in DOMAIN posts :
                 posts[pk].author = username /\ PublishedFilter(pk, now)})

\* a ListView with paginate_by = 10 over list
PaginatedList(view, actor, shows, list, param) ==
    IF ListViewPage(Len(list), param) = 0 THEN NotFound(view, actor)
    ELSE Listing(view, actor, shows,
                 PageItems(list, ListViewPage(Len(list), param)),
                 ListViewPage(Len(list), param))

IndexList(param) ==
    /\ Idle
    /\ resp' = PaginatedList("IndexListView", AnyViewer, "", IndexQueryset, param)
    /\ UNCHANGED <<now, importTime, db, creator>>

CategoryList(slug, param) ==
    /\ Idle
    /\ resp' = IF slug \in DOMAIN categories /\ categories[slug]
               THEN Listing("CategoryListView", AnyViewer, slug,
                        PageItems(CategoryQueryset(slug),
                                  MyPagination(Len(CategoryQueryset(slug)), param)),
                        MyPagination(Len(CategoryQueryset(slug)), param))
               ELSE NotFound("CategoryListView", AnyViewer)
    /\ UNCHANGED <<now, importTime, db, creator>>

ProfileList(viewer, username, param) ==
    /\ Idle
    /\ resp' = IF username \in Users
               THEN PaginatedList("ProfileListView", viewer, username,
                                  ProfileQueryset(viewer, username), param)
               ELSE NotFound("ProfileListView", viewer)
    /\ UNCHANGED <<now, importTime, db, creator>>

\* PostDetailView: get_object() applies no filter
PostDetailPage(pk) ==
    /\ Idle
    /\ resp' = IF pk \in DOMAIN posts
               THEN Listing("PostDetailView", AnyViewer, "", <<pk>>, 0)
               ELSE NotFound("PostDetailView", AnyViewer)
    /\ UNCHANGED <<now, importTime, db, creator>>

\* the response is sent; the next request can be taken up
Deliver ==
    /\ ~Idle
    /\ resp' = NoResponse
    /\ UNCHANGED <<now, importTime, db, creator>>

-----------------------------------------------------------------------------
(* The application: an empty database, the server started at time 0. *)

EmptyTable == [x \in {} |-> NULL]

Init ==
    /\ now = 0
    /\ importTime = 0
    /\ categories = [slug \in CategorySlugs |-> TRUE]
    /\ locations = [name \in LocationNames |-> TRUE]
    /\ posts = EmptyTable
    /\ comments = EmptyTable
    /\ nextPostPk = 1
    /\ nextCommentPk = 1
    /\ resp = NoResponse
    /\ creator = EmptyTable

\* the page parameters of the requests of Spec, where no listing is longer
\* than a page
FewPageParams == {NoPage, IntPage(2)}

Next ==
    \/ Tick
    \/ \E actor \in Actors, req \in PostRequests : PostCreate(actor, req)
    \/ \E actor \in Actors, pk \in PostPks, req \in PostRequests :
           PostUpdate(actor, pk, req)
    \/ \E actor \in Actors, pk \in PostPks, method \in Methods :
           PostDelete(actor, pk, method)
    \/ \E actor \in Actors, pk \in PostPks, text \in CommentTexts :
           CommentCreate(actor, pk, text)
    \/ \E actor \in Actors, pk \in PostPks, commentId \in CommentPks,
          req \in CommentRequests : CommentUpdate(actor, pk, commentId, req)
    \/ \E actor \in Actors, pk \in PostPks, commentId \in CommentPks,
          method \in Methods : CommentDelete(actor, pk, commentId, method)
    \/ \E slug \in CategorySlugs, flag \in BOOLEAN : SetCategoryPublished(slug, flag)
    \/ \E name \in LocationNames, flag \in BOOLEAN : SetLocationPublished(name, flag)
    \/ \E slug \in CategorySlugs : DeleteCategory(slug)
    \/ \E param \in FewPageParams : IndexList(param)
    \/ \E slug \in CategorySlugs, param \in FewPageParams : CategoryList(slug, param)
    \/ \E viewer \in Actors, username \in Usernames, param \in FewPageParams :
           ProfileList(viewer, username, param)
    \/ \E pk \in PostPks : PostDetailPage(pk)
    \/ Deliver

Spec == Init /\ [][Next]_vars

-----------------------------------------------------------------------------
(* The listings over a longer table: up to MaxListed posts of one author,   *)
(* all published in a published category, and every page parameter.        *)

ListedRow ==
    [author |-> "alice", title |-> Title, text |-> TxtDa, pub_date |-> 0,
     is_published |-> TRUE, category |-> "c1", location |-> "l1"]

PageParams ==
    {NoPage, LastPage, WordPage}
    \cup {IntPage(n) : n \in -1..(NumPages(MaxListed) + 1)}

InitPage ==
    /\ now = 0
    /\ importTime = 0
    /\ categories = [slug \in CategorySlugs |-> TRUE]
    /\ locations = [name \in LocationNames |-> TRUE]
    /\ \E short \in 0..MaxListed :
          /\ posts = [pk \in 1..(MaxListed - short) |-> ListedRow]
          /\ creator = [pk \in 1..(MaxListed - short) |-> "alice"]
          /\ nextPostPk = MaxListed - short + 1
    /\ comments = EmptyTable
    /\ nextCommentPk = 1
    /\ resp = NoResponse

NextPage ==
    \/ \E slug \in CategorySlugs, param \in PageParams : CategoryList(slug, param)
    \/ \E param \in PageParams : IndexList(param)
    \/ \E viewer \in Actors, username \in Usernames, param \in PageParams :
           ProfileList(viewer, username, param)
    \/ Deliver

SpecPage == InitPage /\ [][NextPage]_vars

-----------------------------------------------------------------------------
(* Properties. *)

Range(seq) == {seq[i] : i \in 1..Len(seq)}

\* the post form passes validation
PostAccepted(form) ==
    PostFormClean[form.text] = "clean" /\ PostFieldErrors(form) = {}

\* the comment form passes validation
CommentAccepted(text) == CommentFormClean[text] = "clean"

\* every post but pk is as it was
OtherPostsKept(pk) ==
    /\ DOMAIN posts' \cup {pk} = DOMAIN posts \cup {pk}
    /\ \A p \in DOMAIN posts \ {pk} : posts'[p] = posts[p]

\* every comment but commentId is as it was
OtherCommentsKept(commentId) ==
    /\ DOMAIN comments' \cup {commentId} = DOMAIN comments \cup {commentId}
    /\ \A c \in DOMAIN comments \ {commentId} : comments'[c] = comments[c]

\* C1: an update or delete request on an existing post or comment goes through
\* iff the actor is its author.  From anyone else it changes no post and no
\* comment and is answered by a redirect to the post's detail page (for a
\* comment, the detail page of the comment's own post, whatever post the URL
\* names).  From the author, a POST that the form accepts is carried out: the
\* row is rewritten as submitted, or removed, and nothing else is touched.
C1_OnlyAuthorMutates ==
    [][/\ resp'.view = "PostUpdateView" =>
            \A pk \in DOMAIN posts, req \in PostRequests :
                PostUpdate(resp'.actor, pk, req) =>
                    IF posts[pk].author # resp'.actor
                    THEN /\ posts' = posts /\ comments' = comments
                         /\ resp' = Redirect("PostUpdateView", resp'.actor, PostDetail(pk))
                    ELSE req.method = "POST" /\ PostAccepted(req.form) =>
                         /\ posts'[pk] = PostRow(posts[pk].author, req.form)
                         /\ OtherPostsKept(pk) /\ comments' = comments
       /\ resp'.view = "PostDeleteView" =>
            \A pk \in DOMAIN posts, method \in Methods :
                PostDelete(resp'.actor, pk, method) =>
                    IF posts[pk].author # resp'.actor
                    THEN /\ posts' = posts /\ comments' = comments
                         /\ resp' = Redirect("PostDeleteView", resp'.actor, PostDetail(pk))
                    ELSE method = "POST" =>
                         /\ pk \notin DOMAIN posts' /\ OtherPostsKept(pk)
       /\ resp'.view = "CommentUpdateView" =>
            \A pk \in PostPks, c \in DOMAIN comments, req \in CommentRequests :
                CommentUpdate(resp'.actor, pk, c, req) =>
                    IF comments[c].author # resp'.actor
                    THEN /\ posts' = posts /\ comments' = comments
                         /\ resp' = Redirect("CommentUpdateView", resp'.actor,
                                             PostDetail(comments[c].post))
                    ELSE req.method = "POST" /\ CommentAccepted(req.text) =>
                         /\ comments'[c] = [comments[c] EXCEPT !.text = req.text]
                         /\ OtherCommentsKept(c) /\ posts' = posts
       /\ resp'.view = "CommentDeleteView" =>
            \A pk \in PostPks, c \in DOMAIN comments, method \in Methods :
                CommentDelete(resp'.actor, pk, c, method) =>
                    IF comments[c].author # resp'.actor
                    THEN /\ posts' = posts /\ comments' = comments
                         /\ resp' = Redirect("CommentDeleteView", resp'.actor,
                                             PostDetail(comments[c].post))
                    ELSE method = "POST" =>
                         /\ c \notin DOMAIN comments' /\ OtherCommentsKept(c)
                         /\ posts' = posts
      ]_vars

\* C1 happens: a user who is not the comment's author has asked to delete it,
\* under the URL of another post, and was sent to the comment's own post; the
\* comment and both posts are still there.
C1_Witness ==
    \E c \in DOMAIN comments :
        /\ resp.view = "CommentDeleteView"
        /\ resp.actor \in Users
        /\ resp.actor # comments[c].author
        /\ resp.status = "redirect"
        /\ resp.to = PostDetail(comments[c].post)
        /\ DOMAIN posts = PostPks

\* C6: the author of every stored post is the user whose request created it.
C6_AuthorIsCreator ==
    \A pk \in DOMAIN posts : posts[pk].author = creator[pk]

\* C6 happens: a post has been rewritten by its author's update request, and
\* another user's update request on a post has been turned away.
C6_Witness ==
    \E pk \in DOMAIN posts :
        /\ resp.view = "PostUpdateView"
        /\ resp.actor \in Users
        /\ resp.actor # posts[pk].author
        /\ resp.status = "redirect"
        /\ resp.to = PostDetail(pk)
        /\ \E other \in DOMAIN posts : posts[other].text = TxtDa /\ other # pk

\* C7: every stored comment refers to a stored post (deleting a post takes its
\* comments with it), and deleting a category deletes no post: the posts that
\* referred to it have a null category and are otherwise as they were.
C7_ReferentialIntegrity ==
    [][/\ \A c \in DOMAIN comments' : comments'[c].post \in DOMAIN posts'
       /\ \A slug \in CategorySlugs :
            DeleteCategory(slug) =>
                /\ DOMAIN posts' = DOMAIN posts
                /\ \A p \in DOMAIN posts :
                     posts'[p] = IF posts[p].category = slug
                                 THEN [posts[p] EXCEPT !.category = NULL]
                                 ELSE posts[p]
      ]_vars

\* C7 happens: a commented post has been deleted by its author and no comment
\* is left, while a post whose category was deleted is still stored.
C7_Witness ==
    /\ resp.view = "PostDeleteView"
    /\ resp.status = "redirect"
    /\ resp.to = IndexPage
    /\ nextCommentPk > 1
    /\ comments = EmptyTable
    /\ \E p \in DOMAIN posts : posts[p].category = NULL

\* The visibility predicate as the specification words it: published, not
\* dated in the future, and in no category or in a published one.
IsPubliclyVisible(pk, t) ==
    /\ posts[pk].is_published
    /\ posts[pk].pub_date <= t
    /\ posts[pk].category = NULL \/ categories[posts[pk].category]

\* published, not dated in the future, and in a published category
IsVisibleInCategory(pk, t) ==
    /\ posts[pk].is_published
    /\ posts[pk].pub_date <= t
    /\ posts[pk].category # NULL
    /\ categories[posts[pk].category]

\* C2: a stored post is on the home page iff it is publicly visible at the time
\* of the request.  (The tables of Spec fit on one page.)
C2_HomeListsVisible ==
    resp.view = "IndexListView" /\ resp.status = "ok" =>
        \A pk \in DOMAIN posts :
            pk \in Range(resp.items) <=> IsPubliclyVisible(pk, now)

C8_UnpublishedNeverExposed ==
    resp.status = "ok"
    /\ resp.view \in {"IndexListView", "CategoryListView", "ProfileListView",
                      "PostDetailView"} =>
        \A pk \in Range(resp.items) :
            resp.actor # posts[pk].author =>
                /\ posts[pk].category = NULL \/ categories[posts[pk].category]
                /\ posts[pk].location = NULL \/ locations[posts[pk].location]

WriteViews ==
    {"PostCreateView", "PostUpdateView", "PostDeleteView",
     "CommentCreateView", "CommentUpdateView", "CommentDeleteView"}

\* C4: an anonymous request to a create, update or delete route (of a stored
\* post or comment) is answered by a redirect to the login page and changes
\* nothing.
C4_AnonymousSentToLogin ==
    [][resp'.actor = Anonymous /\ resp'.view \in WriteViews
       /\ resp'.status # "not_found" =>
          /\ resp' = Redirect(resp'.view, Anonymous, Login)
          /\ posts' = posts /\ comments' = comments
      ]_vars

\* two code points are the same letter, case apart
SameLetter(a, b) == LowerChar(a) = LowerChar(b)

\* an entry of the blocked-word list is a substring of text, case apart
ContainsBlockedWord(text) ==
    \E word \in BAD_WORDS : \E i \in 0..(Len(text) - Len(word)) :
        \A j \in 1..Len(word) : SameLetter(text[i + j], word[j])

Blocked == [text \in PostTexts \cup CommentTexts |-> ContainsBlockedWord(text)]

\* the submission is turned down with the validation message, nothing written
RejectedWithWarning ==
    /\ resp'.status = "form"
    /\ WARNING \in resp'.errors
    /\ posts' = posts /\ comments' = comments

\* the submission is turned down with an error on the form, nothing written
RejectedWithErrors ==
    /\ resp'.status = "form"
    /\ resp'.errors # {}
    /\ posts' = posts /\ comments' = comments

\* C3: a post or a comment submitted (by a user who may submit it) with a text
\* that holds a blocked word, case apart, is rejected with the validation
\* message, and no post and no comment is written.
C3_BlockedTextRejected ==
    [][/\ resp'.view = "PostCreateView" /\ IsAuthenticated(resp'.actor) =>
            \A req \in PostRequests :
                PostCreate(resp'.actor, req) /\ req.method = "POST"
                /\ Blocked[req.form.text] => RejectedWithWarning
       /\ resp'.view = "PostUpdateView" =>
            \A pk \in DOMAIN posts, req \in PostRequests :
                PostUpdate(resp'.actor, pk, req) /\ req.method = "POST"
                /\ posts[pk].author = resp'.actor
                /\ Blocked[req.form.text] => RejectedWithWarning
       /\ resp'.view = "CommentCreateView" /\ IsAuthenticated(resp'.actor) =>
            \A pk \in DOMAIN posts, text \in CommentTexts :
                CommentCreate(resp'.actor, pk, text)
                /\ Blocked[text] => RejectedWithWarning
       /\ resp'.view = "CommentUpdateView" =>
            \A pk \in PostPks, c \in DOMAIN comments, req \in CommentRequests :
                CommentUpdate(resp'.actor, pk, c, req) /\ req.method = "POST"
                /\ comments[c].author = resp'.actor
                /\ Blocked[req.text] => RejectedWithWarning
      ]_vars

\* a required field of the post form is missing from the data
PostFieldMissing(form) ==
    form.title = Missing \/ form.text = NoText \/ form.category = Missing

\* C10: a post or a comment submitted (by a user who may submit it) without a
\* required field, the text among them, gets the form back with an error,
\* never a server error, and no post and no comment is written.
C10_MissingFieldIsFormError ==
    [][/\ resp'.view = "PostCreateView" /\ IsAuthenticated(resp'.actor) =>
            \A req \in PostRequests :
                PostCreate(resp'.actor, req) /\ req.method = "POST"
                /\ PostFieldMissing(req.form) => RejectedWithErrors
       /\ resp'.view = "PostUpdateView" =>
            \A pk \in DOMAIN posts, req \in PostRequests :
                PostUpdate(resp'.actor, pk, req) /\ req.method = "POST"
                /\ posts[pk].author = resp'.actor
                /\ PostFieldMissing(req.form) => RejectedWithErrors
       /\ resp'.view = "CommentCreateView" /\ IsAuthenticated(resp'.actor) =>
            \A pk \in DOMAIN posts :
                CommentCreate(resp'.actor, pk, NoText) => RejectedWithErrors
       /\ resp'.view = "CommentUpdateView" =>
            \A pk \in PostPks, c \in DOMAIN comments :
                CommentUpdate(resp'.actor, pk, c, [method |-> "POST", text |-> NoText])
                /\ comments[c].author = resp'.actor => RejectedWithErrors
      ]_vars

\* the page the claim has the listing return: the requested one when it is a
\* page of the listing, the last one when it is beyond, the first otherwise
ClaimedPage(count, param) ==
    IF param.kind = "int" /\ param.n >= 1
    THEN IF param.n <= NumPages(count) THEN param.n ELSE NumPages(count)
    ELSE 1

\* the response is the claimed page of list
ReturnsClaimedPage(list, param) ==
    /\ resp'.status = "ok"
    /\ resp'.page = ClaimedPage(Len(list), param)
    /\ resp'.items = PageItems(list, ClaimedPage(Len(list), param))

\* C9: the home page, a profile and the page_obj of a category page return, of
\* a listing of any length and for any page parameter, the claimed page, ten
\* posts to a page, and never an error.
C9_PageSelection ==
    [][\A param \in PageParams :
          /\ IndexList(param) => ReturnsClaimedPage(IndexQueryset, param)
          /\ \A slug \in DOMAIN categories :
                CategoryList(slug, param) /\ categories[slug] =>
                    ReturnsClaimedPage(CategoryQueryset(slug), param)
          /\ \A viewer \in Actors, username \in Users :
                ProfileList(viewer, username, param) =>
                    ReturnsClaimedPage(ProfileQueryset(viewer, username), param)
      ]_vars

====
